---- MODULE Spec2Model ----
(***************************************************************************)
(* omega_format: the perception Object record, its nested                  *)
(* ObjectClassification, their timespan slicing and hdf5 mapping, and the  *)
(* process-wide settings getter.                                           *)
(*                                                                         *)
(* Sequences (numpy arrays and lists) are TLA+ sequences.  A confidence is *)
(* a float; it is modelled in tenths, so 0.0 is 0, 1.0 is 10, 1.5 is 15.   *)
(***************************************************************************)
EXTENDS Integers, Sequences, FiniteSets, TLC

VARIABLES obj, pre, call, hist,
          oc, ocPre, ocCall,
          heap, getter, log, returned,
          node, loaded, ioCall

vars == <<obj, pre, call, hist, oc, ocPre, ocCall,
          heap, getter, log, returned, node, loaded, ioCall>>

objVars == <<obj, pre, call, hist>>
ocVars == <<oc, ocPre, ocCall>>
setVars == <<heap, getter, log, returned>>
ioVars == <<node, loaded, ioCall>>

(* ------------------------------- bounds ------------------------------- *)

\* longest time series an Object or ObjectClassification starts with
MaxLen == 3
\* largest birth_stamp an Object starts with
MaxBirth == 1
\* number of SettingsGetter.set calls followed
MaxCalls == 2
\* longest label or confidence sequence an ObjectClassification is given
MaxOcLen == 3

(* --------------------------- python helpers --------------------------- *)

Min(a, b) == IF a < b THEN a ELSE b

Max(a, b) == IF a > b THEN a ELSE b

\* a slice bound as python normalises it: negative counts from the end,
\* and the result is clamped to 0..n
SliceIndex(n, i) == IF i < 0 THEN Max(n + i, 0) ELSE Min(i, n)

\* s[lo:hi]
PySlice(s, lo, hi) ==
    LET a == SliceIndex(Len(s), lo)
        b == SliceIndex(Len(s), hi)
    IN IF b <= a THEN <<>> ELSE [i \in 1..(b - a) |-> s[a + i]]

\* the time series a recording of n samples holds: sample i carries i
Series(n) == [i \in 1..n |-> i]

\* a member of a PerceptionTypes enum, and the integer it is stored as
EnumMember(code) == <<"enum", code>>

EnumCode(e) == e[2]

EnumSeries(n) == [i \in 1..n |-> EnumMember(i)]

SeqsUpTo(S, n) == UNION {[1..k -> S] : k \in 0..n}

(* ------------------------- ObjectClassification ----------------------- *)

\* ObjectClassification(): both defaults
DefaultClassification == [val |-> <<>>, confidence |-> <<>>]

\* np.all(np.logical_and(0 <= v, v <= 1)), in tenths
ConfidenceInRange(x) == 0 <= x /\ x <= 10

\* v[birth:death + 1], the narrowing every cut applies
NarrowExclusive(v, birth, death) == PySlice(v, birth, death)

Narrow(v, birth, death) == PySlice(v, birth, death + 1)

\* cut_to_timespan asserting on confidence even when it is empty
OcCutNoSentinel(self, birth, death) ==
    IF ~(birth >= 0) \/ ~(birth <= death)
    THEN [self |-> self, err |-> TRUE]
    ELSE
      LET valErr == Len(self.val) > 0
                    /\ (~(Len(self.val) > birth) \/ ~(Len(self.val) > death))
          val1 == IF Len(self.val) > 0 /\ ~valErr
                  THEN Narrow(self.val, birth, death)
                  ELSE self.val
          s1 == [self EXCEPT !.val = val1]
          confErr == ~(Len(s1.confidence) > birth)
                     \/ ~(Len(s1.confidence) > death)
      IN IF valErr THEN [self |-> self, err |-> TRUE]
         ELSE IF confErr THEN [self |-> s1, err |-> TRUE]
         ELSE [self |-> [s1 EXCEPT !.confidence =
                            Narrow(s1.confidence, birth, death)],
               err |-> FALSE]

\* ObjectClassification.cut_to_timespan: the instance after the call and
\* whether an assert failed; the instance keeps what was assigned before
\* the failing assert
OcCut(self, birth, death) ==
    IF ~(birth >= 0) \/ ~(birth <= death)
    THEN [self |-> self, err |-> TRUE]
    ELSE
      LET valErr == Len(self.val) > 0
                    /\ (~(Len(self.val) > birth) \/ ~(Len(self.val) > death))
          val1 == IF Len(self.val) > 0 /\ ~valErr
                  THEN Narrow(self.val, birth, death)
                  ELSE self.val
          s1 == [self EXCEPT !.val = val1]
          confErr == Len(s1.confidence) > 0
                     /\ (~(Len(s1.confidence) > birth)
                         \/ ~(Len(s1.confidence) > death))
          conf1 == IF Len(s1.confidence) > 0 /\ ~confErr
                   THEN Narrow(s1.confidence, birth, death)
                   ELSE s1.confidence
      IN IF valErr THEN [self |-> self, err |-> TRUE]
         ELSE IF confErr THEN [self |-> s1, err |-> TRUE]
         ELSE [self |-> [s1 EXCEPT !.confidence = conf1], err |-> FALSE]

(* -------------------------------- ValVar ------------------------------ *)

\* ValVar.cut_to_timespan(birth, death), inclusive end
ValVarCut(v, birth, death) ==
    [val |-> Narrow(v.val, birth, death),
     var |-> Narrow(v.var, birth, death)]

(* -------------------------------- Object ------------------------------ *)

ValVarFields ==
    {"heading", "width", "height", "length",
     "dist_longitudinal", "dist_lateral", "dist_z",
     "rel_vel_longitudinal", "rel_vel_lateral",
     "abs_vel_longitudinal", "abs_vel_lateral",
     "rel_acc_longitudinal", "rel_acc_lateral",
     "abs_acc_longitudinal", "abs_acc_lateral"}

\* np.ndarray and list fields
SeqFields ==
    {"rcs", "age", "tracking_point", "confidence_of_existence",
     "movement_classification", "meas_state"}

\* vars(self), in the order the fields are declared
VarsOrder ==
    <<"id", "birth_stamp",
      "heading", "width", "height", "length",
      "rcs", "age", "tracking_point",
      "confidence_of_existence", "movement_classification", "meas_state",
      "dist_longitudinal", "dist_lateral", "dist_z",
      "rel_vel_longitudinal", "rel_vel_lateral",
      "abs_vel_longitudinal", "abs_vel_lateral",
      "rel_acc_longitudinal", "rel_acc_lateral",
      "abs_acc_longitudinal", "abs_acc_lateral",
      "object_classification">>

FieldNames == {VarsOrder[i] : i \in 1..Len(VarsOrder)}

\* Object.len
ObjLen(o) == Len(o.dist_lateral.val)

\* Object.end
ObjEnd(o) == o.birth_stamp + ObjLen(o)

\* Object.in_timespan
InTimespanNoLen(o, birth, death) ==
    birth < o.birth_stamp /\ death >= o.birth_stamp

InTimespan(o, birth, death) ==
    birth < (o.birth_stamp + Len(o.dist_lateral.val))
    /\ death >= o.birth_stamp

\* the three asserts that open Object.cut_to_timespan
CutAssertsNoLen(o, birth, death) ==
    birth >= 0 /\ birth <= death

CutAsserts(o, birth, death) ==
    birth >= 0 /\ birth <= death /\ ObjLen(o) > death

\* self.birth_stamp += birth
ShiftStampNone(o, birth) == o

ShiftStamp(o, birth) == [o EXCEPT !.birth_stamp = @ + birth]

\* the loop over vars(self).items() from its i-th item on
RECURSIVE CutLoop(_, _, _, _)
CutLoop(o, i, birth, death) ==
    IF i > Len(VarsOrder) THEN [self |-> o, err |-> FALSE]
    ELSE
      LET k == VarsOrder[i]
      IN IF k \in ValVarFields
         THEN CutLoop([o EXCEPT ![k] = ValVarCut(@, birth, death)],
                      i + 1, birth, death)
         ELSE IF k = "object_classification"
         THEN LET r == OcCut(o[k], birth, death)
              IN IF r.err
                 THEN [self |-> [o EXCEPT ![k] = r.self], err |-> TRUE]
                 ELSE CutLoop([o EXCEPT ![k] = r.self], i + 1, birth, death)
         ELSE IF k \in SeqFields
         THEN CutLoop([o EXCEPT ![k] = Narrow(@, birth, death)],
                      i + 1, birth, death)
         ELSE CutLoop(o, i + 1, birth, death)

\* Object.cut_to_timespan: the object after the call, and whether it raised
ObjectCut(o, birth, death) ==
    IF ~CutAsserts(o, birth, death)
    THEN [self |-> o, err |-> TRUE]
    ELSE CutLoop(ShiftStamp(o, birth), 1, birth, death)

(* --------------------------- Object: states --------------------------- *)

EnumFields == {"tracking_point", "movement_classification", "meas_state"}

\* the places of an Object that hold one value per time step, other than
\* dist_lateral, whose length is Object.len
Slots ==
    (ValVarFields \ {"dist_lateral"}) \cup SeqFields
    \cup {"object_classification.val", "object_classification.confidence"}

\* the slots whose length is tried different from Object.len: every raw
\* sequence, both classification sequences, and the first, a middle and
\* the last ValVar of vars(self)
DeviantSlots ==
    SeqFields
    \cup {"object_classification.val", "object_classification.confidence"}
    \cup {"heading", "dist_longitudinal", "abs_acc_lateral"}

\* every slot as long as dist_lateral, but for at most one of them: the
\* model validates no length, so any field may be shorter, longer or empty
LenProfiles(L) ==
    {[s \in Slots |-> L]}
    \cup {[s \in Slots |-> IF s = d THEN n ELSE L] :
            d \in DeviantSlots, n \in (0..MaxLen) \ {L}}

\* Object(...), lines 62-89: the fields with series of the given lengths
MkObject(ident, stamp, L, lens) ==
    [k \in FieldNames |->
       IF k = "id" THEN ident
       ELSE IF k = "birth_stamp" THEN stamp
       ELSE IF k = "dist_lateral" THEN [val |-> Series(L), var |-> Series(L)]
       ELSE IF k \in ValVarFields
       THEN [val |-> Series(lens[k]), var |-> Series(lens[k])]
       ELSE IF k \in EnumFields THEN EnumSeries(lens[k])
       ELSE IF k \in SeqFields THEN Series(lens[k])
       ELSE [val |-> EnumSeries(lens["object_classification.val"]),
             confidence |-> Series(lens["object_classification.confidence"])]]

\* Object(): every default
DefaultObject == MkObject("RU-1", 0, 0, [s \in Slots |-> 0])

Objects ==
    UNION {{MkObject("RU-1", stamp, L, lens) :
              stamp \in 0..MaxBirth, lens \in LenProfiles(L)} :
           L \in 0..MaxLen}

\* the sequences held at a slot: one for a raw or classification slot,
\* val and var for a ValVar
SlotSeqs(o, s) ==
    IF s \in ValVarFields THEN <<o[s].val, o[s].var>>
    ELSE IF s = "object_classification.val"
    THEN <<o.object_classification.val>>
    ELSE IF s = "object_classification.confidence"
    THEN <<o.object_classification.confidence>>
    ELSE <<o[s]>>

AllSlots == Slots \cup {"dist_lateral"}

\* arguments tried for the local cut and for the global window
CutArgs == -1..MaxLen

DeathArgs == 0..MaxLen

WindowArgs == -1..(MaxBirth + MaxLen + 1)

NoCall == [op |-> "none", birth |-> 0, death |-> 0, ok |-> TRUE, ret |-> FALSE]

(* -------------------------- Object: operations ------------------------ *)

\* object.cut_to_timespan(birth, death)
CutToTimespan(birth, death) ==
    LET r == ObjectCut(obj, birth, death)
    IN /\ obj' = r.self
       /\ pre' = obj
       /\ call' = [op |-> "cut", birth |-> birth, death |-> death,
                   ok |-> ~r.err, ret |-> FALSE]
       /\ hist' = [hist EXCEPT
                     !.sum_birth = IF r.err THEN @ ELSE @ + birth,
                     !.raised = @ \/ r.err]
       /\ UNCHANGED <<ocVars, setVars, ioVars>>

\* object.in_timespan(birth, death)
InTimespanCall(birth, death) ==
    /\ call' = [op |-> "in_timespan", birth |-> birth, death |-> death,
                ok |-> TRUE, ret |-> InTimespan(obj, birth, death)]
    /\ pre' = obj
    /\ UNCHANGED <<obj, hist, ocVars, setVars, ioVars>>

(* ------------------ ObjectClassification: operations ------------------ *)

\* enum codes and confidences (in tenths) tried as inputs
LabelCodes == {1, 2}

Labels == {EnumMember(c) : c \in LabelCodes}

ConfValues == {-5, 0, 10, 15}

LabelSeqs == SeqsUpTo(Labels, MaxOcLen)

ConfSeqs == SeqsUpTo(ConfValues, MaxOcLen)

OcCutArgs == -1..MaxOcLen

OcDeathArgs == 0..MaxOcLen

\* @validator('confidence') check_confidence_values: TRUE when the assert
\* holds
CheckConfidenceValuesUpperOnly(v) ==
    Len(v) = 0 \/ \A i \in 1..Len(v) : v[i] <= 10

CheckConfidenceValues(v) ==
    Len(v) = 0 \/ \A i \in 1..Len(v) : ConfidenceInRange(v[i])

\* @validator('confidence') check_array_length: whether it raises and
\* whether it warns
CheckArrayLengthAssert(v, val) ==
    [err |-> Len(v) # Len(val), warned |-> FALSE]

CheckArrayLength(v, val) ==
    [err |-> FALSE, warned |-> Len(v) # Len(val)]

\* cls(val=..., confidence=...): pydantic runs a field's validators in
\* order, stops at the first that raises, and runs none for a field that
\* is not given (it takes the default)
OcNew(val, given, confidence) ==
    IF ~given
    THEN [self |-> [val |-> val, confidence |-> <<>>],
          err |-> FALSE, warned |-> FALSE]
    ELSE IF ~CheckConfidenceValues(confidence)
    THEN [self |-> DefaultClassification, err |-> TRUE, warned |-> FALSE]
    ELSE LET r == CheckArrayLength(confidence, val)
         IN [self |-> [val |-> val, confidence |-> confidence],
             err |-> r.err, warned |-> r.warned]

\* cls.construct(val=..., confidence=...): no validator runs
OcConstructUnchecked(val, confidence) ==
    [self |-> [val |-> val, confidence |-> confidence],
     err |-> FALSE, warned |-> FALSE]

\* ObjectClassification.from_hdf5(group, validate): group holds the
\* datasets 'val' (enum codes) and 'confidence'
OcFromGroup(group, validate) ==
    LET val == [i \in 1..Len(group.val) |-> EnumMember(group.val[i])]
    IN IF validate THEN OcNew(val, TRUE, group.confidence)
       ELSE OcConstructUnchecked(val, group.confidence)

\* the last call on the instance: its arguments, whether it returned and
\* warned, and whether the instance now bound went through the validators
OcCallRecord(op, validate, given, val, conf, birth, death, ok, warned, chk) ==
    [op |-> op, validate |-> validate, given |-> given, val |-> val,
     confidence |-> conf, birth |-> birth, death |-> death,
     ok |-> ok, warned |-> warned, checked |-> chk]

\* ObjectClassification(val=val[, confidence=confidence])
OcConstruct(val, given, confidence) ==
    LET r == OcNew(val, given, confidence)
    IN /\ UNCHANGED <<objVars, setVars, ioVars>>
       /\ oc' = IF r.err THEN oc ELSE r.self
       /\ ocPre' = oc
       /\ ocCall' = OcCallRecord("construct", TRUE, given, val, confidence,
                                 0, 0, ~r.err, r.warned,
                                 IF r.err THEN ocCall.checked ELSE TRUE)

\* ObjectClassification.from_hdf5(group, validate)
OcFromHdf5(codes, confidence, validate) ==
    LET r == OcFromGroup([val |-> codes, confidence |-> confidence], validate)
    IN /\ UNCHANGED <<objVars, setVars, ioVars>>
       /\ oc' = IF r.err THEN oc ELSE r.self
       /\ ocPre' = oc
       /\ ocCall' = OcCallRecord("from_hdf5", validate, TRUE,
                                 [i \in 1..Len(codes) |-> EnumMember(codes[i])],
                                 confidence, 0, 0, ~r.err, r.warned,
                                 IF r.err THEN ocCall.checked ELSE validate)

\* classification.cut_to_timespan(birth, death)
OcCutToTimespan(birth, death) ==
    LET r == OcCut(oc, birth, death)
    IN /\ UNCHANGED <<objVars, setVars, ioVars>>
       /\ oc' = r.self
       /\ ocPre' = oc
       /\ ocCall' = OcCallRecord("cut", FALSE, FALSE, <<>>, <<>>,
                                 birth, death, ~r.err, FALSE, ocCall.checked)

(* ------------------------------ settings ------------------------------ *)

\* the fields class Settings declares
SettingsFields == {"ALLOW_MISSING_TL_GROUPS", "ALLOW_INCOMPLETE_META_DATA"}

\* what a keyword of set(**kwargs) may be: not given, None, or a value
KwValues == {"absent", "None", "True", "False"}

Kwargs == [SettingsFields -> KwValues]

\* Settings(**kwargs) at import: the defaults, or what the environment
\* (env_prefix omega_format_) gives
InitialSettings == [SettingsFields -> {"True", "False"}]

\* the loop of SettingsGetter.set over one Settings object
SetLoopNoNoneCheck(settings, kwargs) ==
    [f \in DOMAIN settings |->
       IF kwargs[f] # "absent" THEN kwargs[f] ELSE settings[f]]

SetLoop(settings, kwargs) ==
    [f \in DOMAIN settings |->
       IF kwargs[f] # "absent" /\ kwargs[f] # "None"
       THEN kwargs[f] ELSE settings[f]]

\* get_settings.set(**kwargs); log keeps the settings as constructed and
\* then the kwargs of every call
Set(kwargs) ==
    /\ Len(log) <= MaxCalls
    /\ heap' = [heap EXCEPT ![getter.settings] = SetLoop(@, kwargs)]
    /\ log' = Append(log, kwargs)
    /\ UNCHANGED <<getter, returned, objVars, ocVars, ioVars>>

\* get_settings()
GetSettings ==
    /\ returned' = <<getter.settings>>
    /\ UNCHANGED <<heap, getter, log, objVars, ocVars, ioVars>>

\* getattr(settings, name) raises AttributeError for a name that is no
\* field of the model
HasAttr(settings, name) == name \in DOMAIN settings

(* ------------------------------- storage ------------------------------ *)

\* a group of the store: its path, attributes, datasets and child groups,
\* each a set of <<name, content>>; a child group is a set of datasets
FreshNode(path) == [name |-> path, attrs |-> {}, datasets |-> {}, groups |-> {}]

Has(entries, name) == \E e \in entries : e[1] = name

Get(entries, name) == (CHOOSE e \in entries : e[1] = name)[2]

\* group.name.rpartition('/')[-1], the path being the sequence of its parts
LastPart(path) == path[Len(path)]

\* what numpy stores for a list of enum members: their integer codes
EnumCodes(v) == [i \in 1..Len(v) |-> EnumCode(v[i])]

\* list(map(PerceptionTypes.X, codes))
EnumMembers(codes) == [i \in 1..Len(codes) |-> EnumMember(codes[i])]

\* the in-memory name and the on-disk name of each field, in the order
\* to_hdf5 writes them
WriteOrder ==
    <<<<"birth_stamp", "birthStamp">>,
      <<"heading", "heading">>, <<"width", "width">>,
      <<"height", "height">>, <<"length", "length">>,
      <<"rcs", "rcs">>, <<"age", "age">>,
      <<"tracking_point", "trackingPoint">>,
      <<"confidence_of_existence", "confidenceOfExistence">>,
      <<"movement_classification", "movementClassification">>,
      <<"meas_state", "measState">>,
      <<"dist_longitudinal", "distLongitudinal">>,
      <<"dist_lateral", "distLateral">>, <<"dist_z", "distZ">>,
      <<"rel_vel_longitudinal", "relVelLongitudinal">>,
      <<"rel_vel_lateral", "relVelLateral">>,
      <<"abs_vel_longitudinal", "absVelLongitudinal">>,
      <<"abs_vel_lateral", "absVelLateral">>,
      <<"rel_acc_longitudinal", "relAccLongitudinal">>,
      <<"rel_acc_lateral", "relAccLateral">>,
      <<"abs_acc_longitudinal", "absAccLongitudinal">>,
      <<"abs_acc_lateral", "absAccLateral">>,
      <<"object_classification", "objectClassification">>>>

\* the names from_hdf5 reads each field from
ReadName(k) ==
    CASE k = "birth_stamp" -> "birthStamp"
      [] k = "heading" -> "heading"
      [] k = "width" -> "width"
      [] k = "height" -> "height"
      [] k = "length" -> "length"
      [] k = "rcs" -> "rcs"
      [] k = "age" -> "age"
      [] k = "tracking_point" -> "trackingPoint"
      [] k = "confidence_of_existence" -> "confidenceOfExistence"
      [] k = "movement_classification" -> "movementClassification"
      [] k = "meas_state" -> "measState"
      [] k = "dist_longitudinal" -> "distLongitudinal"
      [] k = "dist_lateral" -> "distLateral"
      [] k = "dist_z" -> "distZ"
      [] k = "rel_vel_longitudinal" -> "relVelLongitudinal"
      [] k = "rel_vel_lateral" -> "relVelLateral"
      [] k = "abs_vel_longitudinal" -> "absVelLongitudinal"
      [] k = "abs_vel_lateral" -> "absVelLateral"
      [] k = "rel_acc_longitudinal" -> "relAccLongitudinal"
      [] k = "rel_acc_lateral" -> "relAccLateral"
      [] k = "abs_acc_longitudinal" -> "absAccLongitudinal"
      [] k = "abs_acc_lateral" -> "absAccLateral"
      [] k = "object_classification" -> "objectClassification"

\* **get_settings().hdf5_compress_args, evaluated before every dataset is
\* created: an AttributeError when the settings have no such attribute
CompressArgsRaise(settings) == ~HasAttr(settings, "hdf5_compress_args")

\* ValVar.to_hdf5(group): the datasets val and var, written with the
\* compression configuration
ValVarToHdf5(v, settings) ==
    IF CompressArgsRaise(settings) THEN [datasets |-> {}, err |-> TRUE]
    ELSE [datasets |-> {<<"val", v.val>>, <<"var", v.var>>}, err |-> FALSE]

\* ValVar.from_hdf5(group)
ValVarFromHdf5(datasets) ==
    IF Has(datasets, "val") /\ Has(datasets, "var")
    THEN [self |-> [val |-> Get(datasets, "val"), var |-> Get(datasets, "var")],
          err |-> FALSE]
    ELSE [self |-> [val |-> <<>>, var |-> <<>>], err |-> TRUE]

\* ObjectClassification.to_hdf5(group)
OcToHdf5(self, settings) ==
    IF CompressArgsRaise(settings) THEN [datasets |-> {}, err |-> TRUE]
    ELSE [datasets |-> {<<"val", EnumCodes(self.val)>>,
                        <<"confidence", self.confidence>>},
          err |-> FALSE]

\* Object.to_hdf5 from its i-th write on: the node as the call leaves it,
\* and whether it raised
RECURSIVE ToHdf5Loop(_, _, _, _)
ToHdf5Loop(o, settings, n, i) ==
    IF i > Len(WriteOrder) THEN [node |-> n, err |-> FALSE]
    ELSE
      LET k == WriteOrder[i][1]
          disk == WriteOrder[i][2]
      IN IF k = "birth_stamp"
         THEN ToHdf5Loop(o, settings,
                         [n EXCEPT !.attrs = @ \cup {<<disk, o[k]>>}], i + 1)
         ELSE IF k \in ValVarFields
         THEN LET r == ValVarToHdf5(o[k], settings)
                  n1 == [n EXCEPT !.groups = @ \cup {<<disk, r.datasets>>}]
              IN IF r.err THEN [node |-> n1, err |-> TRUE]
                 ELSE ToHdf5Loop(o, settings, n1, i + 1)
         ELSE IF k = "object_classification"
         THEN LET r == OcToHdf5(o[k], settings)
                  n1 == [n EXCEPT !.groups = @ \cup {<<disk, r.datasets>>}]
              IN IF r.err THEN [node |-> n1, err |-> TRUE]
                 ELSE ToHdf5Loop(o, settings, n1, i + 1)
         ELSE IF CompressArgsRaise(settings) THEN [node |-> n, err |-> TRUE]
         ELSE LET data == IF k \in EnumFields THEN EnumCodes(o[k]) ELSE o[k]
              IN ToHdf5Loop(o, settings,
                            [n EXCEPT !.datasets = @ \cup {<<disk, data>>}],
                            i + 1)

\* whether every name from_hdf5 reads is in the node (a KeyError otherwise)
Readable(n) ==
    /\ Has(n.attrs, ReadName("birth_stamp"))
    /\ \A k \in SeqFields : Has(n.datasets, ReadName(k))
    /\ \A k \in ValVarFields :
          /\ Has(n.groups, ReadName(k))
          /\ ~ValVarFromHdf5(Get(n.groups, ReadName(k))).err
    /\ Has(n.groups, ReadName("object_classification"))
    /\ LET g == Get(n.groups, ReadName("object_classification"))
       IN Has(g, "val") /\ Has(g, "confidence")

\* Object.from_hdf5(group, validate): the Object read, and whether the
\* call raised
ObjectFromHdf5(n, validate) ==
    IF ~Readable(n) THEN [self |-> DefaultObject, err |-> TRUE]
    ELSE
      LET g == Get(n.groups, ReadName("object_classification"))
          c == OcFromGroup([val |-> Get(g, "val"),
                            confidence |-> Get(g, "confidence")], validate)
          o == [k \in FieldNames |->
                  IF k = "id" THEN LastPart(n.name)
                  ELSE IF k = "birth_stamp" THEN Get(n.attrs, ReadName(k))
                  ELSE IF k \in ValVarFields
                  THEN ValVarFromHdf5(Get(n.groups, ReadName(k))).self
                  ELSE IF k = "tracking_point"
                  THEN IF validate
                       THEN EnumMembers(Get(n.datasets, ReadName(k)))
                       ELSE Get(n.datasets, ReadName(k))
                  ELSE IF k \in EnumFields
                  THEN EnumMembers(Get(n.datasets, ReadName(k)))
                  ELSE IF k \in SeqFields THEN Get(n.datasets, ReadName(k))
                  ELSE c.self]
      IN [self |-> o, err |-> c.err]

\* the paths of the fresh nodes an Object is written to
NodePaths == {<<"objects", "RU-1">>, <<"objects", "RU-2">>}

NoIo == [op |-> "none", ok |-> TRUE, validate |-> TRUE]

\* obj.to_hdf5(group), group a fresh node at the given path
ToHdf5(path) ==
    LET r == ToHdf5Loop(obj, heap[getter.settings], FreshNode(path), 1)
    IN /\ node' = r.node
       /\ loaded' = <<>>
       /\ ioCall' = [op |-> "to_hdf5", ok |-> ~r.err, validate |-> TRUE]
       /\ UNCHANGED <<objVars, ocVars, setVars>>

\* Object.from_hdf5(node, validate) on the node last written
FromHdf5(validate) ==
    LET r == ObjectFromHdf5(node, validate)
    IN /\ loaded' = IF r.err THEN <<>> ELSE <<r.self>>
       /\ ioCall' = [op |-> "from_hdf5", ok |-> ~r.err, validate |-> validate]
       /\ UNCHANGED <<node, objVars, ocVars, setVars>>

(* ----------------------------- idle values ---------------------------- *)

IdleObject ==
    /\ obj = DefaultObject
    /\ pre = DefaultObject
    /\ call = NoCall
    /\ hist = [orig_stamp |-> 0, sum_birth |-> 0, raised |-> FALSE]

IdleClassification ==
    /\ oc = DefaultClassification
    /\ ocPre = DefaultClassification
    /\ ocCall = OcCallRecord("none", TRUE, FALSE, <<>>, <<>>, 0, 0, TRUE,
                             FALSE, TRUE)

\* get_settings = SettingsGetter(): the defaults of class Settings
IdleSettings ==
    /\ heap = <<[f \in SettingsFields |-> "True"]>>
    /\ getter = [settings |-> 1]
    /\ log = heap
    /\ returned = <<>>

IdleStore ==
    /\ node = FreshNode(<<"objects">>)
    /\ loaded = <<>>
    /\ ioCall = NoIo

(* --------------------------- specifications --------------------------- *)

InitObject ==
    /\ obj \in Objects
    /\ pre = obj
    /\ call = NoCall
    /\ hist = [orig_stamp |-> obj.birth_stamp, sum_birth |-> 0,
               raised |-> FALSE]
    /\ IdleClassification /\ IdleSettings /\ IdleStore

NextObject ==
    \E birth \in CutArgs, death \in DeathArgs : CutToTimespan(birth, death)

\* an Object under any sequence of cuts
SpecObject == InitObject /\ [][NextObject]_vars

NextTimespan ==
    \E birth \in WindowArgs, death \in WindowArgs :
        InTimespanCall(birth, death)

\* an Object asked whether it lives in a global window
SpecTimespan == InitObject /\ [][NextTimespan]_vars

InitClassification ==
    /\ IdleObject /\ IdleClassification /\ IdleSettings /\ IdleStore

\* direct construction, with confidence given or left to its default
Construct ==
    /\ ocCall.op = "none"
    /\ \/ \E val \in LabelSeqs, confidence \in ConfSeqs :
            OcConstruct(val, TRUE, confidence)
       \/ \E val \in LabelSeqs : OcConstruct(val, FALSE, <<>>)

\* a load from a group of any content
Load ==
    /\ ocCall.op = "none"
    /\ \E codes \in SeqsUpTo(LabelCodes, MaxOcLen), confidence \in ConfSeqs,
          validate \in BOOLEAN :
         OcFromHdf5(codes, confidence, validate)

\* a cut of the instance made, until a cut raises
Cut ==
    /\ ocCall.op # "none" /\ ocCall.ok
    /\ \E birth \in OcCutArgs, death \in OcDeathArgs :
         OcCutToTimespan(birth, death)

NextClassification == Construct \/ Load \/ Cut

\* one ObjectClassification: constructed or loaded, then cut until a cut
\* raises
SpecClassification == InitClassification /\ [][NextClassification]_vars

InitSettings ==
    /\ heap \in {<<s>> : s \in InitialSettings}
    /\ getter = [settings |-> 1]
    /\ log = heap
    /\ returned = <<>>
    /\ IdleObject /\ IdleClassification /\ IdleStore

NextSettings ==
    \/ \E kwargs \in Kwargs : Set(kwargs)
    \/ GetSettings

\* the process-wide settings under set and get
SpecSettings == InitSettings /\ [][NextSettings]_vars

InitStore ==
    /\ obj \in Objects
    /\ pre = obj
    /\ call = NoCall
    /\ hist = [orig_stamp |-> obj.birth_stamp, sum_birth |-> 0,
               raised |-> FALSE]
    /\ IdleClassification /\ IdleSettings /\ IdleStore

NextStore ==
    \/ \E path \in NodePaths : ToHdf5(path)
    \/ \E validate \in BOOLEAN : FromHdf5(validate)

\* an Object saved to a fresh node and loaded back
SpecStore == InitStore /\ [][NextStore]_vars

(* ------------------------------- claims ------------------------------- *)

\* the closed index range [birth, death] of a sequence, in order
IsRangeOf(after, before, birth, death) ==
    /\ Len(after) = death - birth + 1
    /\ \A i \in 1..Len(after) : after[i] = before[birth + i]

CutLen == call.death - call.birth + 1

\* C1, as stated: for any Object with len = L and 0 <= birth <= death < L,
\* cut_to_timespan(birth, death) returns, len is death - birth + 1 and every
\* time-indexed field has exactly that length.
C1_EveryFieldHasCutLength ==
    (call.op = "cut" /\ 0 <= call.birth /\ call.birth <= call.death
       /\ call.death < ObjLen(pre))
    => /\ call.ok
       /\ ObjLen(obj) = CutLen
       /\ \A s \in AllSlots : \A i \in 1..Len(SlotSeqs(obj, s)) :
             Len(SlotSeqs(obj, s)[i]) = CutLen

\* C1, amended: with 0 <= birth <= death < len the call returns when every
\* time-indexed sequence has more than death elements, and when it returns,
\* len is death - birth + 1 and every time-indexed sequence that had more
\* than death elements before the call is its range [birth, death], of that
\* length.
C1_LongEnoughFieldsHaveCutLength ==
    (call.op = "cut" /\ 0 <= call.birth /\ call.birth <= call.death
       /\ call.death < ObjLen(pre))
    => /\ (\A s \in AllSlots : \A i \in 1..Len(SlotSeqs(pre, s)) :
              Len(SlotSeqs(pre, s)[i]) > call.death) => call.ok
       /\ call.ok =>
            /\ ObjLen(obj) = CutLen
            /\ \A s \in AllSlots : \A i \in 1..Len(SlotSeqs(pre, s)) :
                  Len(SlotSeqs(pre, s)[i]) > call.death
                  => IsRangeOf(SlotSeqs(obj, s)[i], SlotSeqs(pre, s)[i],
                               call.birth, call.death)

\* a cut from both ends of an Object whose fields all have three samples
C1_Witness ==
    /\ call.op = "cut" /\ call.ok
    /\ call.birth = 1 /\ call.death = 1
    /\ \A s \in AllSlots : \A i \in 1..Len(SlotSeqs(pre, s)) :
          Len(SlotSeqs(pre, s)[i]) = 3
    /\ ObjLen(obj) = 1

\* C2: cut_to_timespan is atomic for every Object: it either completes with
\* birth_stamp shifted and every time-indexed field cut, or it fails and
\* leaves birth_stamp and every field as before the call.
C2_CutIsAtomic ==
    call.op = "cut" =>
      IF call.ok
      THEN /\ obj.birth_stamp = pre.birth_stamp + call.birth
           /\ \A s \in AllSlots : \A i \in 1..Len(SlotSeqs(pre, s)) :
                 SlotSeqs(obj, s)[i]
                   = Narrow(SlotSeqs(pre, s)[i], call.birth, call.death)
      ELSE obj = pre

\* C3: cut_to_timespan with birth < 0, birth > death or death >= len fails,
\* and birth_stamp and all fields are unchanged.
C3_OutOfRangeFailsUnchanged ==
    (call.op = "cut"
       /\ (call.birth < 0 \/ call.birth > call.death
           \/ call.death >= ObjLen(pre)))
    => ~call.ok /\ obj = pre

\* a cut past the end of a non-empty Object, as cut_to_timespan(2, 10) on
\* len 5
C3_Witness ==
    /\ call.op = "cut" /\ ~call.ok
    /\ call.birth = 2 /\ call.death >= ObjLen(pre)
    /\ ObjLen(pre) = 3
    /\ obj = pre

\* C4: a successful cut_to_timespan(birth, death) adds birth to birth_stamp
\* and leaves id; over any sequence of successful cuts birth_stamp is the
\* original one plus the sum of the birth arguments.
C4_BirthStampShifts ==
    /\ (call.op = "cut" /\ call.ok)
       => /\ obj.birth_stamp = pre.birth_stamp + call.birth
          /\ obj.id = pre.id
    /\ ~hist.raised => obj.birth_stamp = hist.orig_stamp + hist.sum_birth

\* two successful cuts that each drop the first sample
C4_Witness ==
    /\ call.op = "cut" /\ call.ok /\ call.birth = 1
    /\ ~hist.raised /\ hist.sum_birth = 2
    /\ obj.birth_stamp = hist.orig_stamp + 2

\* some global index lies in the extent [birth_stamp, birth_stamp + len)
\* and in the closed window [birth, death]
Overlaps(o, birth, death) ==
    \E t \in WindowArgs :
       /\ o.birth_stamp <= t /\ t < o.birth_stamp + ObjLen(o)
       /\ birth <= t /\ t <= death

\* C5, as stated: in_timespan(birth, death) is true iff the extent overlaps
\* the window, for every birth_stamp, len >= 0, birth and death.
C5_TrueIffOverlap ==
    call.op = "in_timespan"
    => (call.ret <=> Overlaps(pre, call.birth, call.death))

\* C5, amended: for len >= 1 and birth <= death, in_timespan(birth, death)
\* is true iff the extent overlaps the window.
C5_TrueIffOverlapNonEmpty ==
    (call.op = "in_timespan" /\ ObjLen(pre) >= 1 /\ call.birth <= call.death)
    => (call.ret <=> Overlaps(pre, call.birth, call.death))

\* the window ends on the first index of the extent, as (0, 10) for
\* birth_stamp 10
C5_Witness ==
    /\ call.op = "in_timespan" /\ call.ret
    /\ ObjLen(pre) >= 1
    /\ call.birth < call.death /\ call.death = pre.birth_stamp

\* C6: to_hdf5 into a fresh node followed by from_hdf5 on that node
\* succeeds and yields a record equal to the original in every field, the
\* id being the name of the node.
C6_RoundTrip ==
    /\ ioCall.op = "to_hdf5" => ioCall.ok
    /\ (ioCall.op = "from_hdf5" /\ ioCall.validate)
       => /\ ioCall.ok
          /\ loaded = <<[obj EXCEPT !.id = LastPart(node.name)]>>

AllInRange(v) == \A i \in 1..Len(v) : 0 <= v[i] /\ v[i] <= 10

\* C7, as stated: every ObjectClassification produced by construction or
\* from_store, and after any cuts, has every confidence in [0, 1];
\* construction with a value outside fails and returns no object; 0.0, 1.0
\* and the empty sequence are accepted.
C7_ConfidenceAlwaysInRange ==
    /\ AllInRange(oc.confidence)
    /\ (ocCall.op \in {"construct", "from_hdf5"})
       => /\ (ocCall.ok <=> AllInRange(ocCall.confidence))
          /\ ~ocCall.ok => oc = ocPre

\* C7, amended: the same of every ObjectClassification produced by a
\* validating construction (direct, or from_store with validate = true);
\* from_store with validate = false checks no value.
C7_ValidatedConfidenceInRange ==
    /\ ocCall.checked => AllInRange(oc.confidence)
    /\ (ocCall.op = "construct" \/ (ocCall.op = "from_hdf5" /\ ocCall.validate))
       => /\ (ocCall.ok <=> AllInRange(ocCall.confidence))
          /\ ~ocCall.ok => oc = ocPre

\* a cut of a validated instance that holds 0.0 and 1.0
C7_Witness ==
    /\ ocCall.op = "cut" /\ ocCall.ok /\ ocCall.checked
    /\ \E i, j \in 1..Len(ocPre.confidence) :
          ocPre.confidence[i] = 0 /\ ocPre.confidence[j] = 10
    /\ Len(oc.confidence) = 1

\* C8, as stated: direct construction with label and confidence sequences
\* of different lengths never fails for the lengths and emits the
\* length-mismatch warning; no warning when the lengths are equal.
C8_MismatchAlwaysWarns ==
    (ocCall.op = "construct" /\ AllInRange(ocCall.confidence))
    => /\ ocCall.ok
       /\ ocCall.warned <=> Len(oc.val) # Len(oc.confidence)

\* C8, amended: a validating construction never fails for the lengths, and
\* it emits the length-mismatch warning exactly when a confidence sequence
\* is given to it and its length differs from that of the labels; with
\* confidence omitted (the empty default) no warning is emitted.
C8_GivenMismatchWarns ==
    ((ocCall.op = "construct" \/ (ocCall.op = "from_hdf5" /\ ocCall.validate))
       /\ AllInRange(ocCall.confidence))
    => /\ ocCall.ok
       /\ ocCall.warned
            <=> (ocCall.given /\ Len(ocCall.val) # Len(ocCall.confidence))

\* labels with an explicitly given empty confidence sequence
C8_Witness ==
    /\ ocCall.op = "construct" /\ ocCall.given /\ ocCall.ok /\ ocCall.warned
    /\ Len(oc.val) = 3 /\ oc.confidence = <<>>

\* the value a field holds after the calls logged: the last one set for it
\* that is not None, or the one it was constructed with
RECURSIVE LastNonNull(_, _)
LastNonNull(f, n) ==
    IF n = 1 \/ log[n][f] \in {"True", "False"} THEN log[n][f]
    ELSE LastNonNull(f, n - 1)

\* C9: set(**kwargs) overrides exactly the keys given with a non-null value
\* and leaves every other key; after any sequence of set calls get_settings()
\* returns the same settings object holding, for each field, the last
\* non-null value set for it, or its initial value.
C9_LastNonNullWins ==
    /\ getter.settings = 1 /\ Len(heap) = 1
    /\ returned # <<>> => returned = <<1>>
    /\ \A f \in SettingsFields : heap[1][f] = LastNonNull(f, Len(log))

\* a field set to False and then given as None
C9_Witness ==
    /\ Len(log) = 3 /\ returned = <<1>>
    /\ \E f \in SettingsFields :
          /\ log[1][f] = "True" /\ log[2][f] = "False" /\ log[3][f] = "None"
          /\ heap[1][f] = "False"

\* C10: ObjectClassification.cut_to_timespan(birth, death) with
\* 0 <= birth <= death trims labels and confidence independently: a
\* non-empty one must be longer than death (the call fails otherwise) and
\* becomes its range [birth, death]; an empty one stays empty and fails
\* nothing.
C10_TrimsIndependently ==
    (ocCall.op = "cut" /\ 0 <= ocCall.birth /\ ocCall.birth <= ocCall.death)
    => LET fits(v) == Len(v) = 0 \/ Len(v) > ocCall.death
           trimmed(after, before) ==
               IF Len(before) = 0 THEN after = <<>>
               ELSE IsRangeOf(after, before, ocCall.birth, ocCall.death)
       IN /\ ocCall.ok <=> (fits(ocPre.val) /\ fits(ocPre.confidence))
          /\ ocCall.ok => /\ trimmed(oc.val, ocPre.val)
                          /\ trimmed(oc.confidence, ocPre.confidence)

\* labels cut from both ends while the empty confidence stays empty
C10_Witness ==
    /\ ocCall.op = "cut" /\ ocCall.ok
    /\ ocCall.birth = 1 /\ ocCall.death = 1
    /\ Len(ocPre.val) = 3 /\ ocPre.confidence = <<>>
    /\ Len(oc.val) = 1 /\ oc.confidence = <<>>

====
